---- MODULE Spec2Model ----
(***************************************************************************)
(* Client data cache and mutation coordination of the notes/files app:     *)
(* hooks/useEntries.ts and hooks/useFiles.ts (query + optimistic           *)
(* mutations), lib/queryClient.ts (retry = 3, networkMode = offlineFirst), *)
(* lib/api.ts (gateway result shape), hooks/useAuth.ts (logout),           *)
(* main.tsx (resume of paused mutations).                                  *)
(*                                                                         *)
(* The hooks run on a query library; its retryer is modelled as the hooks  *)
(* configure it: with networkMode 'offlineFirst' the first attempt of a    *)
(* query or mutation always runs, a failed attempt is retried while        *)
(* failureCount < retry after a delay, and when the delay ends while the   *)
(* connectivity monitor reports offline the retry is paused until the      *)
(* monitor reports online again.  One step of the model is one task of the *)
(* single UI thread: a handler runs to its next network wait or timer.     *)
(*                                                                         *)
(* The module also covers the server's rateLimit middleware and password   *)
(* reset (backend/index.ts, routes/password-reset.ts) and the chat hook    *)
(* (hooks/useChat.ts); each has its own part of the state.                 *)
(***************************************************************************)
EXTENDS Integers, Sequences, FiniteSets, TLC

\* ---------------------------------------------------------------- bounds
MaxMuts == 2
MaxClock == 2
MaxDiscarded == 1
MaxWaiters == 2
MaxBoots == 1
MaxCalls == 3
MaxTokens == 2
MaxReqs == 2
MaxTime == 120
MaxSockets == 3
MaxMsgs == 2

\* ------------------------------------------------------ program constants
\* variant: two more automatic retries
RetryFive == 3 + 2

Retry == 3

Keys == {"entries", "files"}
EntryKinds == {"create", "update", "delete"}
FileKinds == {"upload", "fdelete"}
Kinds == EntryKinds \cup FileKinds
Texts == {"a", "b"}
Ids == {1}
NetworkFailure == 0
Unauthorized == 401
Statuses == {200, 400, 401, 500, NetworkFailure}
FetchStatuses == {200, 401, 500, NetworkFailure}
NotSent == -1

\* the token of a second user of the same browser
Other == "tok2"

\* the unit of the server's time: one minute (60 * 1000 ms)
Minute == 1
Hour == 60 * Minute

\* the addresses rateLimit tells apart ('unknown': no proxy header)
Ips == {"10.0.0.1", "unknown"}

\* the routes behind rateLimit and the limit each one passes to it
Routes == {"signup", "login", "forgot-password", "reset-password"}
Limit(route) ==
  CASE route = "signup" -> 5
    [] route = "login" -> 10
    [] route = "forgot-password" -> 3
    [] OTHER -> 5

\* the passwords a reset can ask for
Passwords == {"p1", "p2"}

VARIABLES token, online, clock, cache, discarded, server, nextId, muts, resuming,
          stored, listener, backend, chat

vars == <<token, online, clock, cache, discarded, server, nextId, muts, resuming,
          stored, listener, backend, chat>>

\* the state of the data hooks of the client
client == <<token, online, clock, cache, discarded, server, nextId, muts, resuming,
            stored, listener>>

\* ------------------------------------------------------------------ data
Entry(i, t) == [id |-> i, text |-> t]

\* JS undefined (getQueryData of a key without data) and a defined list
Undef == [def |-> FALSE, v |-> <<>>]
Def(s) == [def |-> TRUE, v |-> s]

KeyOf(kind) == IF kind \in EntryKinds THEN "entries" ELSE "files"

\* a mutation with an onMutate/onError pair (upload has none)
Optimistic(kind) == kind # "upload"

RECURSIVE Filter(_, _)
Filter(s, i) ==
  IF s = <<>> THEN <<>>
  ELSE IF Head(s).id = i THEN Filter(Tail(s), i)
       ELSE <<Head(s)>> \o Filter(Tail(s), i)

SetText(s, i, t) ==
  [n \in DOMAIN s |-> IF s[n].id = i THEN [s[n] EXCEPT !.text = t] ELSE s[n]]

\* the updater each onMutate passes to setQueryData
OptimisticUpdater(kind, i, t, now, old) ==
  CASE kind = "create" -> Def(<<Entry(0 - now, t)>> \o (IF old.def THEN old.v ELSE <<>>))
    [] kind = "update" -> Def(IF old.def THEN SetText(old.v, i, t) ELSE <<>>)
    [] OTHER -> Def(IF old.def THEN Filter(old.v, i) ELSE <<>>)

\* what a 2xx commit does to the list the server answers a read with
\* (ORDER BY id DESC: the newest row comes first)
ServerApply(kind, i, t, nid, list) ==
  CASE kind \in {"create", "upload"} -> <<Entry(nid, t)>> \o list
    [] kind = "update" -> SetText(list, i, t)
    [] OTHER -> Filter(list, i)

\* ----------------------------------------------------------------- query
\* fetch: "idle" | "inflight" (request outstanding) | "sleeping" (retry
\* delay running) | "paused" (retry waits for the online event).
\* wire: was the outstanding request sent while the monitor reported online.
\* waiters: callers holding the promise of the running fetch.
\* aged: the data is older than staleTime.
\* as: the token the latest request of the fetch carries.
NewQuery == [data |-> Undef, status |-> "pending", fetch |-> "idle", wire |-> FALSE,
             isInvalidated |-> FALSE, failureCount |-> 0, waiters |-> 0, aged |-> FALSE,
             as |-> ""]

IsStale(q) == q.isInvalidated \/ ~q.data.def \/ q.aged

\* queryClient.setQueryData(key, value)
SetQueryData(q, d) ==
  [q EXCEPT !.data = d, !.status = "success", !.isInvalidated = FALSE, !.aged = FALSE]

\* start of a fetch: the first attempt runs whatever the connectivity, with
\* the token of the hook's latest render
StartFetch(q, on) ==
  [q EXCEPT !.fetch = "inflight", !.wire = on, !.failureCount = 0, !.waiters = 1,
            !.as = token,
            !.status = IF q.data.def THEN q.status ELSE "pending"]

\* the request of a cancelled fetch stays outstanding, its result is dropped
Orphans(q, n) ==
  IF q.fetch = "inflight" /\ n < MaxDiscarded THEN n + 1 ELSE n

\* variant: onMutate without cancelQueries
CancelSkipped(q) == q

\* queryClient.cancelQueries({ queryKey })
CancelFetch(q) == [q EXCEPT !.fetch = "idle", !.waiters = 0]

\* a read that does not cancel (mount, enabled change, online event):
\* joins the fetch in flight, or starts one when the data is stale
ReadQuery(q, enabled, on) ==
  IF q.fetch = "idle" /\ enabled /\ IsStale(q) THEN StartFetch(q, on) ELSE q

\* variant: a refetch never joins the running fetch
JoinsNever(q) == FALSE

Joins(q) == q.fetch # "idle" /\ ~q.data.def

\* variant: a refetch that starts nothing
RefetchNever(q, on) == q

\* a refetch with cancelRefetch: a running fetch of a key that has data is
\* dropped and replaced, one of a key without data is joined
Refetch(q, on) ==
  IF Joins(q) THEN [q EXCEPT !.waiters = IF @ < MaxWaiters THEN @ + 1 ELSE @]
  ELSE StartFetch(q, on)

RefetchOrphans(q, n) == IF Joins(q) THEN n ELSE Orphans(q, n)

\* variant: onSettled leaves the key as it is
InvalidateSkipped(q, enabled, on) == q

\* queryClient.invalidateQueries({ queryKey })
Invalidate(q, enabled, on) ==
  IF enabled THEN Refetch([q EXCEPT !.isInvalidated = TRUE], on)
  ELSE [q EXCEPT !.isInvalidated = TRUE]

InvalidateOrphans(q, n, enabled) == IF enabled THEN RefetchOrphans(q, n) ELSE n

\* queryFn of a hook that holds no token: resolves with [] without a request
ResolveEmpty(q) ==
  [q EXCEPT !.data = Def(<<>>), !.status = "success", !.isInvalidated = FALSE,
            !.fetch = "idle", !.failureCount = 0, !.waiters = 0, !.aged = FALSE]

\* the query's reaction to the monitor's online event: a paused retry goes on
\* (queryFn is called again), otherwise the key is read
QueryOnOnline(q, enabled, on) ==
  IF q.fetch = "paused" /\ on
  THEN IF enabled THEN [q EXCEPT !.fetch = "inflight", !.wire = TRUE, !.as = token]
       ELSE ResolveEmpty(q)
  ELSE ReadQuery(q, enabled, on)

\* the hook's isLoading: no data yet and a fetch running
IsLoading(q) == q.status = "pending" /\ q.fetch \in {"inflight", "sleeping"}

\* -------------------------------------------------------------- mutation
\* phase: "inflight" (attempt running) | "sleeping" (retry delay running) |
\* "paused" (isPaused) | "success" | "error".
\* last: the status the latest attempt was answered with, <<>> while it runs.
\* restored: the mutation was rebuilt from the persisted snapshot; it has its
\* state (variables, context) but none of the options useMutation gave it.
\* returned: what the promise of the wrapper (addEntry, ...) settled to.
\* tok: the token the mutationFn of this mutation closes over.
\* wire: "none" (the attempt threw before the gateway), "down" / "up" (the
\* request was sent while the monitor reported offline / online).
Pending(m) == m.phase \in {"inflight", "sleeping", "paused"}
Settled(m) == m.phase \in {"success", "error"}

\* does an attempt of this kind reach the gateway with this token
Sends(kind, tok) == kind \in EntryKinds \/ tok # ""

\* does mutationFn call onUnauthorized for this gateway status
CallsUnauthorized(kind, s) == kind # "create" /\ s = Unauthorized

\* onError of the mutation: restore the snapshot when there is one
Rollback(m, q) == IF Optimistic(m.kind) /\ m.ctx.def THEN SetQueryData(q, m.ctx) ELSE q

\* variant: the wrapper awaits mutateAsync without a catch
WrapperUncaught(ok) == IF ok THEN "true" ELSE "rejected"

\* try { await mutation.mutateAsync(...); return true } catch { return false }
Wrapper(ok) == IF ok THEN "true" ELSE "false"

\* does this attempt call the gateway: a restored mutation has no mutationFn
Calls(m, tok) == ~m.restored /\ Sends(m.kind, tok)

\* one attempt of the retryer: mutationFn is called
Run(m, tok, on) ==
  [m EXCEPT !.phase = "inflight", !.last = <<>>,
            !.wire = IF ~Calls(m, tok) THEN "none" ELSE IF on THEN "up" ELSE "down",
            !.calls = IF Calls(m, tok) THEN @ + 1 ELSE @]

\* the statuses an outstanding request can be answered with
Answers(sentUp, on, all) == IF sentUp /\ on THEN all ELSE {NetworkFailure}

\* is mutation n the one its useMutation hook started last (one hook per kind)
Current(ms, n) ==
  ~ms[n].restored /\ \A j \in DOMAIN ms : j > n => ms[j].kind # ms[n].kind

\* the hooks render with token tok: each useMutation hands its new options,
\* with the mutationFn that closes over tok, to the mutation it started last;
\* a mutation started earlier keeps the mutationFn it has
Rerender(ms, tok) ==
  [n \in DOMAIN ms |-> IF Current(ms, n) THEN [ms[n] EXCEPT !.tok = tok] ELSE ms[n]]

\* batches of resumed mutations whose completion the online handler awaits
Done(ms, b) == \A n \in b : Settled(ms[n])
Fires(ms) == \E b \in resuming : Done(ms, b)

\* ----------------------------------------------------------- persistence
\* stored: the snapshot under REACT_QUERY_OFFLINE_CACHE and the number of
\* restarts so far; has = FALSE while nothing has been written.
NoSnapshot == [has |-> FALSE, cache |-> [k \in Keys |-> NewQuery], muts |-> <<>>, boots |-> 0]

\* shouldDehydrateQuery: only a query in status success is written
DehydrateQuery(q) == IF q.status = "success" THEN q ELSE NewQuery

RECURSIVE PausedOf(_)
\* the library's default for mutations: only paused ones are written
PausedOf(ms) ==
  IF ms = <<>> THEN <<>>
  ELSE IF Head(ms).phase = "paused" THEN <<Head(ms)>> \o PausedOf(Tail(ms))
       ELSE PausedOf(Tail(ms))

Dehydrate(c, ms, boots) ==
  [has |-> TRUE, cache |-> [k \in Keys |-> DehydrateQuery(c[k])], muts |-> PausedOf(ms),
   boots |-> boots]

\* a restored query keeps data, status, isInvalidated and the age of its
\* data; no fetch is attached to it
HydrateQuery(q) ==
  [q EXCEPT !.fetch = "idle", !.waiters = 0, !.failureCount = 0, !.as = ""]

\* a restored mutation keeps its state; mutateAsync's caller, mutationFn,
\* onError, onSettled and the retryer with its count belonged to the process
\* that is gone
HydrateMutation(m) ==
  [m EXCEPT !.restored = TRUE, !.calls = 0, !.failureCount = 0, !.offline = FALSE, !.tok = ""]

\* ------------------------------------------------- connectivity listener
\* listener: the callback useOnlineStatus registered with
\* onOnlineStatusChange; shown is the hook's state, calls counts invocations.
\* handleOnline / handleOffline: callback(b) when registered
Notify(l, b) ==
  IF l.on THEN [l EXCEPT !.shown = b, !.calls = IF @ < MaxCalls THEN @ + 1 ELSE @] ELSE l

\* the rows GET /entries and GET /files answer with: those of the user the
\* token belongs to (WHERE user_id = ?); the other user owns none
ServerList(k, u) == IF u = Other THEN <<>> ELSE server[k]

\* ----------------------------------------------------------------- server
\* backend: now (Date.now() in minutes), rateLimitMap (per address: count and
\* resetTime, has = FALSE while the map has no entry), passed (per address
\* and route: the requests that reached the handler since the entry of the
\* address was started), answer (address, route and status of the latest
\* response), user (the row of the one registered user; reset_token 0 is
\* NULL), issued (reset tokens generated so far), reqs (the POST
\* /reset-password requests: "idle" not yet made, "hashing" waiting for
\* Bun.password.hash, "done" answered 200).
NoRecord == [has |-> FALSE, count |-> 0, resetTime |-> 0]
NoRequest == [pc |-> "idle", token |-> 0, password |-> ""]

NewBackend ==
  [now |-> 0,
   rateLimitMap |-> [ip \in Ips |-> NoRecord],
   passed |-> [ip \in Ips |-> [r \in Routes |-> 0]],
   answer |-> <<>>,
   user |-> [password |-> "p0", reset_token |-> 0, reset_expires |-> 0],
   issued |-> 0,
   reqs |-> [r \in 1..MaxReqs |-> NoRequest]]

\* the middleware rateLimit(limit, windowMs) for a request of address ip at
\* time now: the new map and whether next() is called
rateLimit(map, ip, now, limit, windowMs) ==
  LET record == map[ip]
  IN IF ~record.has \/ now > record.resetTime
     THEN [map |-> [map EXCEPT ![ip] = [has |-> TRUE, count |-> 1, resetTime |-> now + windowMs]],
           fresh |-> TRUE, next |-> TRUE]
     ELSE IF record.count >= limit
     THEN [map |-> map, fresh |-> FALSE, next |-> FALSE]
     ELSE [map |-> [map EXCEPT ![ip].count = @ + 1], fresh |-> FALSE, next |-> TRUE]

\* the backend after the middleware of route has run for address ip
Through(b, ip, route) ==
  LET r == rateLimit(b.rateLimitMap, ip, b.now, Limit(route), Minute)
      base == IF r.fresh THEN [x \in Routes |-> 0] ELSE b.passed[ip]
  IN [b EXCEPT !.rateLimitMap = r.map,
               !.passed[ip] = IF r.next THEN [base EXCEPT ![route] = @ + 1] ELSE base,
               !.answer = IF r.next THEN <<ip, route, 200>> ELSE <<ip, route, 429>>]

Passes(b, ip, route) == rateLimit(b.rateLimitMap, ip, b.now, Limit(route), Minute).next

\* POST /signup, POST /login: the middleware, then the handler
Request(ip, route) ==
  /\ route \in {"signup", "login"}
  /\ backend' = Through(backend, ip, route)
  /\ UNCHANGED <<client, chat>>

\* POST /forgot-password: for the e-mail of the registered user a new token
\* that expires in one hour is stored, any other e-mail changes nothing
Forgot(ip, known) ==
  /\ known => backend.issued < MaxTokens
  /\ LET b == Through(backend, ip, "forgot-password")
     IN backend' = IF Passes(backend, ip, "forgot-password") /\ known
                   THEN [b EXCEPT !.issued = @ + 1,
                                  !.user.reset_token = backend.issued + 1,
                                  !.user.reset_expires = backend.now + Hour]
                   ELSE b
  /\ UNCHANGED <<client, chat>>

\* POST /reset-password with token t, up to the await of the hash:
\* findByResetToken, the expiry check
ResetBegin(ip, r, t, pw) ==
  /\ backend.reqs[r].pc = "idle"
  /\ LET b == Through(backend, ip, "reset-password")
         u == backend.user
     IN backend' =
          IF ~Passes(backend, ip, "reset-password") THEN b
          ELSE IF u.reset_token # t THEN [b EXCEPT !.answer[3] = 400]
          ELSE IF u.reset_expires < backend.now
          THEN [b EXCEPT !.answer[3] = 400, !.user.reset_token = 0, !.user.reset_expires = 0]
          ELSE [b EXCEPT !.answer = <<>>,
                         !.reqs[r] = [pc |-> "hashing", token |-> t, password |-> pw]]
  /\ backend' # backend
  /\ UNCHANGED <<client, chat>>

\* the hash of request r is ready: updatePassword, clearResetToken, 200
ResetFinish(r) ==
  /\ backend.reqs[r].pc = "hashing"
  /\ backend' = [backend EXCEPT !.user.password = backend.reqs[r].password,
                                !.user.reset_token = 0, !.user.reset_expires = 0,
                                !.reqs[r].pc = "done"]
  /\ UNCHANGED <<client, chat>>

\* d minutes pass on the server
Pass(d) ==
  /\ backend.now + d <= MaxTime
  /\ backend' = [backend EXCEPT !.now = @ + d]
  /\ UNCHANGED <<client, chat>>

\* ------------------------------------------------------------------- chat
\* chat: the sockets useChat has created (readyState "connecting", "open",
\* "closing", "closed"; "aborting": close() was called while connecting),
\* current (socketRef: index of the socket, 0 = null), the hook's state
\* isConnected, messages (the socket each one arrived on) and error.
NewChat == [sockets |-> <<>>, current |-> 0, isConnected |-> FALSE, messages |-> <<>>,
            error |-> FALSE]

\* disconnect(): close the socket of the ref when it is open or connecting
Disconnect(c) ==
  IF c.current = 0 THEN c
  ELSE [c EXCEPT !.sockets[c.current] =
                    CASE @ = "open" -> "closing"
                      [] @ = "connecting" -> "aborting"
                      [] OTHER -> @,
                 !.current = 0]

\* connect(): nothing when the socket of the ref is open or connecting,
\* otherwise a new socket with the four handlers becomes the ref's socket
Connect(c) ==
  IF c.current # 0 /\ c.sockets[c.current] \in {"open", "connecting"} THEN c
  ELSE [c EXCEPT !.sockets = Append(@, "connecting"), !.current = Len(c.sockets) + 1]

\* the effect runs: on mount, and again (cleanup first) when username or
\* room has changed
Effect ==
  /\ Len(chat.sockets) < MaxSockets
  /\ chat' = Connect(Disconnect(chat))
  /\ UNCHANGED <<client, backend>>

\* socket i reports open: its onopen runs
SocketOpen(i) ==
  /\ i \in DOMAIN chat.sockets
  /\ chat.sockets[i] = "connecting"
  /\ chat' = [chat EXCEPT !.sockets[i] = "open", !.isConnected = TRUE, !.error = FALSE]
  /\ UNCHANGED <<client, backend>>

\* socket i delivers a message (also while it is closing): its onmessage runs
SocketMessage(i) ==
  /\ i \in DOMAIN chat.sockets
  /\ chat.sockets[i] \in {"open", "closing"}
  /\ Len(chat.messages) < MaxMsgs
  /\ chat' = [chat EXCEPT !.messages = Append(@, i)]
  /\ UNCHANGED <<client, backend>>

\* socket i is closed, by close(), by the server or by a failure: its
\* onclose runs, after its onerror when the connection was never established
SocketClose(i) ==
  /\ i \in DOMAIN chat.sockets
  /\ chat.sockets[i] # "closed"
  /\ chat' = [chat EXCEPT !.sockets[i] = "closed", !.isConnected = FALSE,
                          !.error = IF chat.sockets[i] \in {"connecting", "aborting"}
                                    THEN TRUE ELSE @]
  /\ UNCHANGED <<client, backend>>

\* the lists the server can hold when the client starts
InitLists == {<<>>, <<Entry(1, "a")>>}

Init ==
  /\ token \in {"", "tok"}
  /\ online = TRUE
  /\ clock = 1
  /\ cache = [k \in Keys |-> ReadQuery(NewQuery, token # "", TRUE)]
  /\ discarded = [k \in Keys |-> 0]
  /\ server \in [Keys -> InitLists]
  /\ nextId = 2
  /\ muts = <<>>
  /\ resuming = {}
  /\ stored = NoSnapshot
  /\ listener = [on |-> FALSE, shown |-> TRUE, calls |-> 0]
  /\ backend = NewBackend
  /\ chat = NewChat

\* the start of the scenarios that use the entries hook only: the list of
\* files plays no part in them and is empty
InitEntries == Init /\ server["files"] = <<>>

\* the start of the scenarios of the server: nobody is logged in on the
\* client, whose state plays no part in them
InitBackend == Init /\ token = "" /\ server = [k \in Keys |-> <<>>]

\* the start of the scenarios of the chat: a user is logged in
InitChat == Init /\ token = "tok" /\ server = [k \in Keys |-> <<>>]

\* useAuth.login answered with the token u: both queries become enabled and
\* a fetch they start carries u
LoginAs(u) ==
  /\ token = ""
  /\ token' = u
  /\ cache' = [k \in Keys |->
                 LET q == ReadQuery(cache[k], TRUE, online)
                 IN IF q # cache[k] THEN [q EXCEPT !.as = u] ELSE q]
  /\ muts' = Rerender(muts, u)
  /\ UNCHANGED <<backend, chat, stored, listener, online, clock, discarded, server, nextId, resuming>>

\* the user of the other scenarios logs in
Login ==
  /\ token = ""
  /\ LoginAs("tok")

\* another user logs in on the same browser
LoginOther ==
  /\ token = ""
  /\ LoginAs(Other)

\* useAuth.logout
Logout ==
  /\ token # ""
  /\ token' = ""
  /\ muts' = Rerender(muts, "")
  /\ UNCHANGED <<backend, chat, stored, listener, online, clock, cache, discarded, server, nextId, resuming>>

\* Date.now() advances
Tick ==
  /\ clock < MaxClock
  /\ clock' = clock + 1
  /\ UNCHANGED <<backend, chat, stored, listener, token, online, cache, discarded, server, nextId, muts, resuming>>

\* fetchEntries / refreshFiles: refetch()
Read(k) ==
  /\ token # ""
  /\ cache' = [cache EXCEPT ![k] = Refetch(@, online)]
  /\ discarded' = [discarded EXCEPT ![k] = RefetchOrphans(cache[k], @)]
  /\ UNCHANGED <<backend, chat, stored, listener, token, online, clock, server, nextId, muts, resuming>>

\* addEntry / updateEntry / deleteEntry / uploadFile / deleteFile:
\* onMutate (cancel, snapshot, optimistic write), then the first attempt
Mutate(kind, i, t) ==
  /\ token # ""
  /\ Len(muts) < MaxMuts
  /\ LET k == KeyOf(kind)
         q == cache[k]
         m == [kind |-> kind, id |-> i, text |-> t, now |-> clock,
               ctx |-> IF Optimistic(kind) THEN q.data ELSE Undef,
               phase |-> "inflight", wire |-> "none", calls |-> 0,
               failureCount |-> 0, last |-> <<>>, unauth |-> 0,
               offline |-> ~online, restored |-> FALSE, returned |-> "waiting",
               tok |-> token]
     IN /\ cache' = [cache EXCEPT ![k] =
                       IF Optimistic(kind)
                       THEN SetQueryData(CancelFetch(q), OptimisticUpdater(kind, i, t, clock, q.data))
                       ELSE q]
        /\ discarded' = [discarded EXCEPT ![k] = IF Optimistic(kind) THEN Orphans(q, @) ELSE @]
        /\ muts' = Append(muts, Run(m, m.tok, online))
  /\ UNCHANGED <<backend, chat, stored, listener, token, online, clock, server, nextId, resuming>>

\* the cache after the online handlers whose batch has completed have run
AfterBatches(c, ms, tok) ==
  IF Fires(ms) THEN [k \in Keys |-> QueryOnOnline(c[k], tok # "", online)] ELSE c

\* an attempt of mutation n is answered with status s (NotSent: mutationFn
\* threw 'Nicht authentifiziert' without a request)
CommitRespond(n, s) ==
  /\ n \in DOMAIN muts
  /\ muts[n].phase = "inflight"
  /\ s \in IF muts[n].wire = "none" THEN {NotSent}
           ELSE Answers(muts[n].wire = "up", online, Statuses)
  /\ LET m == muts[n]
         k == KeyOf(m.kind)
         q == cache[k]
         ok == s = 200
         un == CallsUnauthorized(m.kind, s)
         own == ~m.restored
         m1 == [m EXCEPT !.last = <<s>>, !.unauth = IF un THEN @ + 1 ELSE @]
         retry == ~ok /\ m.failureCount < Retry
         base == IF ok \/ ~own THEN q ELSE Rollback(m, q)
         done(ph) == [m1 EXCEPT !.phase = ph,
                                !.returned = IF own THEN Wrapper(ph = "success") ELSE @]
         ms == [muts EXCEPT ![n] =
                  IF ok THEN done("success")
                  ELSE IF retry THEN [m1 EXCEPT !.phase = "sleeping", !.failureCount = @ + 1]
                  ELSE done("error")]
         tok == IF un THEN "" ELSE token
     IN /\ muts' = Rerender(ms, tok)
        /\ token' = tok
        /\ server' = IF ok THEN [server EXCEPT ![k] = ServerApply(m.kind, m.id, m.text, nextId, @)]
                     ELSE server
        /\ nextId' = IF ok /\ m.kind \in {"create", "upload"} THEN nextId + 1 ELSE nextId
        /\ cache' = IF retry THEN cache
                    ELSE AfterBatches([cache EXCEPT ![k] =
                                             IF own THEN Invalidate(base, token # "", online) ELSE base],
                                           ms, tok)
        /\ discarded' = IF retry THEN discarded
                        ELSE [discarded EXCEPT ![k] =
                                IF own THEN InvalidateOrphans(base, @, token # "") ELSE @]
        /\ resuming' = IF retry THEN resuming ELSE {b \in resuming : ~Done(ms, b)}
  /\ UNCHANGED <<backend, chat, stored, listener, online, clock>>

\* the retry delay of mutation n ends
Wake(n) ==
  /\ n \in DOMAIN muts
  /\ muts[n].phase = "sleeping"
  /\ muts' = [muts EXCEPT ![n] = IF online THEN Run(@, @.tok, TRUE) ELSE [@ EXCEPT !.phase = "paused"]]
  /\ UNCHANGED <<backend, chat, stored, listener, token, online, clock, cache, discarded, server, nextId, resuming>>

\* the platform's offline event
GoOffline ==
  /\ online
  /\ online' = FALSE
  /\ listener' = Notify(listener, FALSE)
  /\ UNCHANGED <<backend, chat, stored, token, clock, cache, discarded, server, nextId, muts, resuming>>

\* the platform's online event: resumePausedMutations, then, once the
\* resumed mutations have settled, the queries' online handlers
GoOnline ==
  /\ ~online
  /\ online' = TRUE
  /\ LET paused == {n \in DOMAIN muts : muts[n].phase = "paused"}
     IN /\ muts' = [n \in DOMAIN muts |->
                      IF n \in paused THEN Run(muts[n], muts[n].tok, TRUE)
                      ELSE muts[n]]
        /\ resuming' = IF paused = {} THEN resuming ELSE resuming \cup {paused}
        /\ cache' = IF paused = {}
                    THEN [k \in Keys |-> QueryOnOnline(cache[k], token # "", TRUE)]
                    ELSE cache
  /\ listener' = Notify(listener, TRUE)
  /\ UNCHANGED <<backend, chat, stored, token, clock, discarded, server, nextId>>

\* the running fetch of key k is answered with status s
FetchRespond(k, s) ==
  /\ cache[k].fetch = "inflight"
  /\ s \in Answers(cache[k].wire, online, FetchStatuses)
  /\ LET q == cache[k]
     IN /\ cache' = [cache EXCEPT ![k] =
                       IF s = 200
                       THEN [q EXCEPT !.data = Def(ServerList(k, q.as)), !.status = "success",
                                      !.isInvalidated = FALSE, !.fetch = "idle",
                                      !.failureCount = 0, !.waiters = 0, !.aged = FALSE]
                       ELSE IF q.failureCount < Retry
                       THEN [q EXCEPT !.fetch = "sleeping", !.failureCount = @ + 1]
                       ELSE [q EXCEPT !.fetch = "idle", !.status = "error", !.waiters = 0]]
        /\ token' = IF s = Unauthorized THEN "" ELSE token
        /\ muts' = Rerender(muts, token')
  /\ UNCHANGED <<backend, chat, stored, listener, online, clock, discarded, server, nextId, resuming>>

\* the retry delay of the fetch of key k ends; queryFn returns [] without a
\* request when the hook holds no token
FetchWake(k) ==
  /\ cache[k].fetch = "sleeping"
  /\ cache' = [cache EXCEPT ![k] =
                 IF ~online THEN [@ EXCEPT !.fetch = "paused"]
                 ELSE IF token = "" THEN ResolveEmpty(@)
                 ELSE [@ EXCEPT !.fetch = "inflight", !.wire = TRUE, !.as = token]]
  /\ UNCHANGED <<backend, chat, stored, listener, token, online, clock, discarded, server, nextId, muts, resuming>>

\* the request of a cancelled fetch is answered: queryFn still runs its 401
\* branch, the result is dropped
StaleRespond(k, s) ==
  /\ discarded[k] > 0
  /\ s \in FetchStatuses
  /\ discarded' = [discarded EXCEPT ![k] = @ - 1]
  /\ token' = IF s = Unauthorized THEN "" ELSE token
  /\ muts' = Rerender(muts, token')
  /\ UNCHANGED <<backend, chat, stored, listener, online, clock, cache, server, nextId, resuming>>

\* the platform delivers an online / offline event that repeats the state it
\* reported last: the library's monitor ignores it, the listener does not
RepeatEvent ==
  /\ listener' = Notify(listener, online)
  /\ listener' # listener
  /\ UNCHANGED <<backend, chat, token, online, clock, cache, discarded, server, nextId, muts, resuming, stored>>

\* useOnlineStatus mounts: setOnline(isOnline()), then onOnlineStatusChange
Subscribe ==
  /\ ~listener.on
  /\ listener' = [listener EXCEPT !.on = TRUE, !.shown = online]
  /\ UNCHANGED <<backend, chat, token, online, clock, cache, discarded, server, nextId, muts, resuming, stored>>

\* the cleanup function returned by onOnlineStatusChange runs
Unsubscribe ==
  /\ listener.on
  /\ listener' = [listener EXCEPT !.on = FALSE]
  /\ UNCHANGED <<backend, chat, token, online, clock, cache, discarded, server, nextId, muts, resuming, stored>>

\* staleTime passes: the data in memory and in the snapshot is older than it
Age ==
  /\ \E k \in Keys : cache[k].data.def /\ ~cache[k].aged
  /\ cache' = [k \in Keys |-> IF cache[k].data.def THEN [cache[k] EXCEPT !.aged = TRUE]
                                ELSE cache[k]]
  /\ stored' = [stored EXCEPT !.cache = [k \in Keys |->
                   IF @[k].data.def THEN [@[k] EXCEPT !.aged = TRUE] ELSE @[k]]]
  /\ UNCHANGED <<backend, chat, token, online, clock, discarded, server, nextId, muts, resuming, listener>>

\* the persister's throttled write of the query and mutation caches
Persist ==
  /\ stored' = Dehydrate(cache, muts, stored.boots)
  /\ stored' # stored
  /\ UNCHANGED <<backend, chat, token, online, clock, cache, discarded, server, nextId, muts, resuming, listener>>

\* the page is loaded again: the in-memory caches start empty, the snapshot
\* is restored, the hooks mount, onSuccess calls resumePausedMutations
Restart ==
  /\ stored.boots < MaxBoots
  /\ stored' = [stored EXCEPT !.boots = @ + 1]
  /\ cache' = [k \in Keys |-> ReadQuery(HydrateQuery(stored.cache[k]), token # "", online)]
  /\ muts' = [n \in DOMAIN stored.muts |->
               IF online THEN Run(HydrateMutation(stored.muts[n]), "", TRUE)
               ELSE HydrateMutation(stored.muts[n])]
  /\ discarded' = [k \in Keys |-> 0]
  /\ resuming' = {}
  /\ listener' = [listener EXCEPT !.on = FALSE]
  /\ UNCHANGED <<backend, chat, token, online, clock, server, nextId>>

\* ---------------------------------------------------------- specifications
\* the complete client: both hooks, every kind of mutation, every event
Next ==
  \/ Login
  \/ Logout
  \/ Tick
  \/ GoOffline
  \/ GoOnline
  \/ \E k \in Keys : Read(k)
  \/ \E kind \in Kinds, i \in Ids, t \in Texts : Mutate(kind, i, t)
  \/ \E n \in 1..MaxMuts, s \in Statuses \cup {NotSent} : CommitRespond(n, s)
  \/ \E n \in 1..MaxMuts : Wake(n)
  \/ \E k \in Keys, s \in FetchStatuses : FetchRespond(k, s)
  \/ \E k \in Keys : FetchWake(k)
  \/ \E k \in Keys, s \in FetchStatuses : StaleRespond(k, s)

Spec == Init /\ [][Next]_vars

\* useEntries with a single mutation of any kind, under every gateway
\* answer, connectivity change, login and logout
NextOne ==
  \/ Tick
  \/ Login
  \/ Logout
  \/ GoOffline
  \/ GoOnline
  \/ \E kind \in EntryKinds, i \in Ids, t \in Texts : Len(muts) < 1 /\ Mutate(kind, i, t)
  \/ \E s \in Statuses : CommitRespond(1, s)
  \/ Wake(1)
  \/ \E s \in FetchStatuses : FetchRespond("entries", s)
  \/ FetchWake("entries")
  \/ \E s \in FetchStatuses : StaleRespond("entries", s)

SpecOne == InitEntries /\ [][NextOne]_vars

\* useEntries with creates issued in quick succession while the client stays
\* online and logged in; commits answered 200 or 400, fetches 200 or 500
NextCreates ==
  \/ \E t \in Texts : Mutate("create", 1, t)
  \/ \E n \in 1..MaxMuts, s \in {200, 400} : CommitRespond(n, s)
  \/ \E n \in 1..MaxMuts : Wake(n)
  \/ \E s \in {200, 500} : FetchRespond("entries", s)
  \/ FetchWake("entries")
  \/ \E s \in {200, 500} : StaleRespond("entries", s)

SpecCreates == InitEntries /\ [][NextCreates]_vars

\* the same creates with the connectivity changing
NextQueue ==
  \/ GoOffline
  \/ GoOnline
  \/ \E t \in Texts : Mutate("create", 1, t)
  \/ \E n \in 1..MaxMuts, s \in {200, 400, NetworkFailure} : CommitRespond(n, s)
  \/ \E n \in 1..MaxMuts : Wake(n)
  \/ \E s \in {200, NetworkFailure} : FetchRespond("entries", s)
  \/ FetchWake("entries")
  \/ \E s \in {200, NetworkFailure} : StaleRespond("entries", s)

SpecQueue == InitEntries /\ [][NextQueue]_vars

\* both queries without mutations: reads, answers, retries, connectivity
NextRead ==
  \/ Login
  \/ Logout
  \/ GoOffline
  \/ GoOnline
  \/ \E k \in Keys : Read(k)
  \/ \E k \in Keys, s \in FetchStatuses : FetchRespond(k, s)
  \/ \E k \in Keys : FetchWake(k)
  \/ \E k \in Keys, s \in FetchStatuses : StaleRespond(k, s)

SpecRead == Init /\ [][NextRead]_vars

\* both queries when the only failure the gateway answers a read with is 401
NextUnauth ==
  \/ Login
  \/ \E k \in Keys : Read(k)
  \/ \E k \in Keys, s \in {200, Unauthorized} : FetchRespond(k, s)
  \/ \E k \in Keys : FetchWake(k)
  \/ \E k \in Keys, s \in {200, Unauthorized} : StaleRespond(k, s)

SpecUnauth == Init /\ [][NextUnauth]_vars

\* useEntries with creates whose commits fail with 500 or succeed, and the
\* user logging out while they are pending
NextLogout ==
  \/ Logout
  \/ Mutate("create", 1, "a")
  \/ \E n \in 1..MaxMuts, s \in {200, 500} : CommitRespond(n, s)
  \/ \E n \in 1..MaxMuts : Wake(n)
  \/ FetchRespond("entries", 200)
  \/ StaleRespond("entries", 200)

SpecLogout == InitEntries /\ [][NextLogout]_vars

\* replay of the queue: creates issued offline, commits answered
\* 200, 400 or lost, the connectivity changing; every outstanding commit is
\* answered in the end and every retry delay ends (the reads of the key stay
\* outstanding)
NextReplay ==
  \/ GoOffline
  \/ GoOnline
  \/ ~online /\ Mutate("create", 1, "a")
  \/ \E n \in 1..MaxMuts, s \in {200, 400, NetworkFailure} : CommitRespond(n, s)
  \/ \E n \in 1..MaxMuts : Wake(n)

SpecReplay ==
  /\ InitEntries
  /\ [][NextReplay]_vars
  /\ \A n \in 1..MaxMuts :
        /\ WF_vars(\E s \in {200, 400, NetworkFailure} : CommitRespond(n, s))
        /\ WF_vars(Wake(n))

\* two users taking turns on one browser: reads, logout, login, the
\* persister's writes and a reload of the page
NextSession ==
  \/ Login
  \/ LoginOther
  \/ Logout
  \/ FetchRespond("entries", 200)
  \/ FetchRespond("files", 200)
  \/ Age
  \/ Persist
  \/ Restart

SpecSession == Init /\ [][NextSession]_vars

\* the rate-limited routes within one window
NextLimit ==
  \/ \E ip \in Ips, route \in {"signup", "login"} : Request(ip, route)
  \/ \E ip \in Ips, known \in BOOLEAN : Forgot(ip, known)

SpecLimit == InitBackend /\ [][NextLimit]_vars

\* the password reset of the registered user: tokens are requested, resets
\* are posted, also concurrently, and time passes
NextReset ==
  \/ Forgot("10.0.0.1", TRUE)
  \/ \E r \in 1..MaxReqs, t \in 1..MaxTokens, pw \in Passwords :
       ResetBegin("10.0.0.1", r, t, pw)
  \/ \E r \in 1..MaxReqs : ResetFinish(r)
  \/ Pass(Hour)

SpecReset == InitBackend /\ [][NextReset]_vars

\* useChat: the effect and the events of its sockets
NextChat ==
  \/ Effect
  \/ \E i \in 1..MaxSockets : SocketOpen(i)
  \/ \E i \in 1..MaxSockets : SocketMessage(i)
  \/ \E i \in 1..MaxSockets : SocketClose(i)

SpecChat == InitChat /\ [][NextChat]_vars

\* the entries query across a restart: persister writes, restore, staleTime
\* passing, connectivity changes; no mutations
NextRestore ==
  \/ GoOffline
  \/ GoOnline
  \/ \E s \in {200, NetworkFailure} : FetchRespond("entries", s)
  \/ FetchWake("entries")
  \/ Read("entries")
  \/ \E s \in {200, NetworkFailure} : StaleRespond("entries", s)
  \/ Age
  \/ Persist
  \/ Restart

SpecRestore == Init /\ [][NextRestore]_vars

\* useEntries with one create across a restart: the create pauses offline,
\* the persister writes, the page is loaded again
NextResume ==
  \/ GoOffline
  \/ GoOnline
  \/ \E t \in Texts : Len(muts) < 1 /\ Mutate("create", 1, t)
  \/ \E s \in {200, NetworkFailure, NotSent} : CommitRespond(1, s)
  \/ Wake(1)
  \/ FetchRespond("entries", 200)
  \/ StaleRespond("entries", 200)
  \/ Persist
  \/ Restart

SpecResume == Init /\ [][NextResume]_vars

\* the connectivity listener of useOnlineStatus beside the entries query
NextMonitor ==
  \/ Subscribe
  \/ Unsubscribe
  \/ RepeatEvent
  \/ GoOffline
  \/ GoOnline
  \/ \E s \in {200, NetworkFailure} : FetchRespond("entries", s)
  \/ FetchWake("entries")

SpecMonitor == Init /\ [][NextMonitor]_vars

\* one mutation of any kind of either hook, under every gateway answer,
\* with login and logout; reads are answered 200
NextWrite ==
  \/ Login
  \/ Logout
  \/ GoOffline
  \/ GoOnline
  \/ \E kind \in Kinds, i \in Ids, t \in Texts : Len(muts) < 1 /\ Mutate(kind, i, t)
  \/ \E s \in Statuses \cup {NotSent} : CommitRespond(1, s)
  \/ Wake(1)
  \/ \E k \in Keys : FetchRespond(k, 200)
  \/ \E k \in Keys : StaleRespond(k, 200)

SpecWrite == Init /\ [][NextWrite]_vars

\* creates of one text issued while online against a gateway that answers
\* every read and answers a commit 200 or 400; every request is answered and every retry
\* timer fires
NextScenario ==
  \/ Mutate("create", 1, "a")
  \/ \E n \in 1..MaxMuts, s \in {200, 400} : CommitRespond(n, s)
  \/ \E n \in 1..MaxMuts : Wake(n)
  \/ FetchRespond("entries", 200)
  \/ StaleRespond("entries", 200)

SpecScenario ==
  /\ Init
  /\ [][NextScenario]_vars
  /\ \A n \in 1..MaxMuts : WF_vars(\E s \in {200, 400} : CommitRespond(n, s))
  /\ \A n \in 1..MaxMuts : WF_vars(Wake(n))
  /\ WF_vars(FetchRespond("entries", 200))

\* ------------------------------------------------------------------ claims

\* C1: a single mutation whose commit fails leaves the data of its key, right
\* after the rollback, equal to the value the key had immediately before the
\* optimistic apply - for every kind and every prior value, a key without
\* data included.
C1_RollbackExact ==
  [][\A n \in DOMAIN muts :
       (Pending(muts[n]) /\ muts'[n].phase = "error")
         => cache'[KeyOf(muts[n].kind)].data = muts[n].ctx]_vars

\* C2: an update answered with 401 invokes onUnauthorized exactly once for
\* the mutation, however often the commit is retried, and when it settles
\* the key holds the snapshot again.
C2_UnauthorizedOnce ==
  [][\A n \in DOMAIN muts :
       (muts[n].kind = "update" /\ muts[n].phase = "inflight" /\ muts'[n].last = <<Unauthorized>>)
         => /\ muts'[n].unauth = 1
            /\ muts'[n].phase = "error" => cache'["entries"].data = muts[n].ctx]_vars

\* C3: for every kind of mutation a commit answered with 401 invokes
\* onUnauthorized, and the settled mutation has rolled its key back.
C3_UnauthorizedEveryKind ==
  [][\A n \in DOMAIN muts :
       (muts[n].phase = "inflight" /\ muts'[n].last = <<Unauthorized>>)
         => /\ muts'[n].unauth = muts[n].unauth + 1
            /\ token' = ""
            /\ muts'[n].phase = "error" => cache'[KeyOf(muts[n].kind)].data = muts[n].ctx]_vars

\* C4: while the monitor reports offline no commit call is made for a
\* mutation issued offline; the mutation issued offline is paused and its
\* optimistic change stays in the cache.
C4_OfflineNoCall ==
  [][~online =>
       \A n \in DOMAIN muts' :
         muts'[n].offline =>
           /\ muts'[n].calls = IF n \in DOMAIN muts THEN muts[n].calls ELSE 0
           /\ n \notin DOMAIN muts => muts'[n].phase = "paused"]_vars

\* C5: the commit calls of mutations issued offline reach the gateway after
\* reconnection in the order of issue: once a later mutation has been
\* called after reconnection, no call of an earlier one follows.
C5_ReplayFifo ==
  [][\A i, j \in DOMAIN muts :
       (i < j /\ muts[i].offline /\ muts[j].offline /\ muts[j].calls > 1)
         => muts'[i].calls = muts[i].calls]_vars

\* C6: a delete issued offline is sent to the gateway exactly once over its
\* whole lifetime, and answered 200 it is in state success.
C6_DeleteSentOnce ==
  \A n \in DOMAIN muts :
    (muts[n].kind = "delete" /\ muts[n].offline)
      => /\ muts[n].calls <= 1
         /\ muts[n].last = <<200>> => muts[n].phase = "success"

\* C7: a commit attempted while the monitor reports online that fails at the
\* network level (status 0) does not put the mutation into error and does
\* not roll the optimistic change back.
C7_NetworkFailurePauses ==
  [][\A n \in DOMAIN muts :
       (muts[n].phase = "inflight" /\ muts[n].wire = "up" /\ muts'[n].last = <<NetworkFailure>>)
         => /\ muts'[n].phase # "error"
            /\ cache'[KeyOf(muts[n].kind)].data = cache[KeyOf(muts[n].kind)].data]_vars

\* C8: when M1 fails while a later create M2 on the same key is pending, the
\* cache still shows M2's placeholder after M1's rollback.
C8_RollbackKeepsLater ==
  [][\A i, j \in DOMAIN muts :
       LET p == Entry(0 - muts[j].now, muts[j].text)
           shows(q) == \E x \in DOMAIN q.data.v : q.data.v[x] = p
       IN (/\ i < j
           /\ Pending(muts[i]) /\ muts'[i].phase = "error"
           /\ Pending(muts[j]) /\ Pending(muts'[j])
           /\ shows(cache["entries"]))
            => shows(cache'["entries"])]_vars

\* C9: two creates issued while online, the first failed and the second
\* succeeded: once both have settled and the reconciliation fetch has
\* completed, the cache holds exactly the pre-existing entries plus the
\* entry of the second create, and no placeholder.
C9_Reconciled ==
  LET q == cache["entries"]
  IN (/\ Len(muts) = 2
      /\ muts[1].phase = "error" /\ muts[2].phase = "success"
      /\ q.fetch = "idle" /\ ~q.isInvalidated /\ q.status = "success")
       => /\ q.data.def
          /\ \E pre \in InitLists : q.data.v = <<Entry(nextId - 1, muts[2].text)>> \o pre
          /\ \A x \in DOMAIN q.data.v : q.data.v[x].id > 0

C9_Witness ==
  /\ Len(muts) = 2
  /\ muts[1].phase = "error" /\ muts[1].calls = Retry + 1
  /\ muts[2].phase = "success"
  /\ cache["entries"].fetch = "idle" /\ ~cache["entries"].isInvalidated
  /\ cache["entries"].status = "success"
  /\ Len(cache["entries"].data.v) = 2

C11_StaleWhileRevalidate ==
  [][\A k \in Keys :
       cache[k].data.def =>
         /\ cache[k].fetch = "sleeping" => cache'[k].data = cache[k].data
         /\ (cache[k].fetch = "inflight" /\ cache'[k].fetch = "idle" /\ cache'[k].status = "error")
              => cache'[k].data = cache[k].data]_vars

\* C14: in every state without a token (after a logout by the user or
\* through onUnauthorized) no key of the cache holds entries.
C14_LogoutTearsDown ==
  token = "" => \A k \in Keys : ~cache[k].data.def \/ cache[k].data.v = <<>>

\* C16: a first commit answered 400 settles the mutation as error at once:
\* one gateway call, no automatic re-attempt.
C16_ValidationNotRetried ==
  [][\A n \in DOMAIN muts :
       (muts[n].phase = "inflight" /\ muts[n].calls = 1 /\ muts'[n].last = <<400>>)
         => muts'[n].phase = "error"]_vars

\* C17: a commit or a read that keeps failing with 500 is re-attempted at most
\* 3 times (4 gateway calls); before the last failure the mutation is neither
\* in error nor rolled back, the last failure surfaces the error.
C17_BoundedRetry ==
  [][/\ \A n \in DOMAIN muts' :
          /\ muts'[n].calls <= 4
          /\ muts'[n].failureCount <= 3
     /\ \A n \in DOMAIN muts :
          (muts[n].phase = "inflight" /\ muts'[n].last = <<500>>)
            => IF muts[n].failureCount < 3
               THEN muts'[n].phase = "sleeping" /\ cache' = cache
               ELSE muts'[n].phase = "error"
     /\ \A k \in Keys :
          /\ cache'[k].failureCount <= 3
          /\ (cache[k].fetch = "inflight" /\ cache'[k].fetch = "idle" /\ cache'[k].status = "error")
               => cache[k].failureCount = 3]_vars

C17_Witness ==
  /\ \E n \in DOMAIN muts :
       muts[n].phase = "error" /\ muts[n].last = <<500>> /\ muts[n].calls = 4
  /\ cache["entries"].status = "error" /\ cache["entries"].failureCount = 3

\* C19: a fetch of key K that is running when a mutation applies its
\* optimistic write to K is detached from the key by that write, and when the
\* answer of a detached fetch arrives the cache is left as it is.
C19_FetchDiscarded ==
  [][\A k \in Keys :
       /\ (/\ Len(muts') > Len(muts)
           /\ KeyOf(muts'[Len(muts')].kind) = k
           /\ Optimistic(muts'[Len(muts')].kind)
           /\ cache[k].fetch # "idle")
            => /\ cache'[k].fetch = "idle"
               /\ cache'[k].data = OptimisticUpdater(muts'[Len(muts')].kind, muts'[Len(muts')].id,
                                                     muts'[Len(muts')].text, clock, cache[k].data)
       /\ discarded'[k] < discarded[k] => cache'[k] = cache[k]]_vars

C19_Witness ==
  \E n \in DOMAIN muts :
    /\ Pending(muts[n]) /\ muts[n].ctx = Undef
    /\ discarded[KeyOf(muts[n].kind)] = 1
    /\ cache[KeyOf(muts[n].kind)].fetch = "idle"
    /\ cache[KeyOf(muts[n].kind)].data.def

\* C12: the snapshot is written, the process restarts and the snapshot is
\* restored: a key that was in status success has its data back, and it is
\* stale - with a token its mount starts a background refetch - whatever the
\* age of the data.
C12_RestoredStale ==
  [][(stored'.boots > stored.boots /\ stored = Dehydrate(cache, muts, stored.boots))
       => \A k \in Keys :
            cache[k].status = "success"
              => /\ cache'[k].data = cache[k].data
                 /\ token # "" => cache'[k].fetch # "idle"]_vars

\* C13: a mutation restored from the snapshot that has settled has been
\* committed to the gateway after the restore.
C13_RestoredCommitted ==
  \A n \in DOMAIN muts :
    (muts[n].restored /\ Settled(muts[n])) => muts[n].calls >= 1

\* C15: the promise of a write entry point is never rejected: it is pending
\* while the mutation is, true once the mutation succeeded, false once it
\* failed.
C15_NeverRejects ==
  \A n \in DOMAIN muts :
    ~muts[n].restored =>
      muts[n].returned = IF Pending(muts[n]) THEN "waiting"
                         ELSE IF muts[n].phase = "success" THEN "true" ELSE "false"

C15_Witness ==
  \E n \in DOMAIN muts :
    /\ muts[n].kind \in FileKinds
    /\ muts[n].phase = "error" /\ muts[n].last = <<Unauthorized>>
    /\ muts[n].returned = "false"

\* C18: the registered callback is invoked only in a step in which the
\* connectivity actually changes, and never after its unsubscribe.
C18_OncePerTransition ==
  [][listener'.calls > listener.calls => (listener.on /\ online' # online)]_vars

\* C20: once a create has been answered 200 the cache eventually equals the
\* list the server returns, without a placeholder, and the loading flag is
\* false.
C20_EventuallyServerList ==
  \A n \in 1..MaxMuts :
    (n \in DOMAIN muts /\ muts[n].phase = "success")
      ~> (/\ cache["entries"].data = Def(server["entries"])
          /\ \A x \in DOMAIN server["entries"] : server["entries"][x].id > 0
          /\ ~IsLoading(cache["entries"]))

C20_Witness ==
  /\ Len(muts) = 1 /\ muts[1].phase = "success"
  /\ cache["entries"].data = Def(<<Entry(2, muts[1].text)>>)
  /\ cache["entries"].fetch = "idle" /\ ~cache["entries"].isInvalidated
  /\ ~IsLoading(cache["entries"])

\* C26: while a mutation on key K is pending, the completion of a fetch does
\* not replace the data of K.
C26_PendingKeepsOptimistic ==
  [][\A n \in DOMAIN muts :
       LET k == KeyOf(muts[n].kind)
       IN (/\ Pending(muts[n]) /\ Optimistic(muts[n].kind)
           /\ muts' = muts
           /\ cache[k].fetch = "inflight" /\ cache'[k].fetch = "idle")
            => cache'[k].data = cache[k].data]_vars

\* C27: when the second of two mutations on the entries key fails after the
\* first one has failed, and no refetch has completed since, the key holds the
\* data it held before the first mutation's optimistic apply - whichever of
\* the two failed last.
C27_BothRolledBack ==
  [][\A i, j \in DOMAIN muts :
       (/\ i # j /\ Len(muts) = 2
        /\ muts[1].ctx.def
        /\ muts[i].phase = "error"
        /\ Pending(muts[j]) /\ muts'[j].phase = "error"
        /\ cache["entries"].fetch # "idle" /\ cache["entries"].isInvalidated)
         => cache'["entries"].data = muts[1].ctx]_vars

\* C28: the ids of the entries in the cached entries list are pairwise
\* distinct.
C28_DistinctIds ==
  LET v == cache["entries"].data.v
  IN \A x, y \in DOMAIN v : x # y => v[x].id # v[y].id

\* C21: after a read of key K that holds data has been answered 401 (the hook
\* has lost its token and the fetch of K waits for its retry), and until a
\* login, the data of K stays as it is and no fetch of K goes to the gateway.
C21_UnauthorizedKeepsData ==
  [][\A k \in Keys :
       (/\ cache[k].data.def /\ cache[k].fetch = "sleeping"
        /\ token = "" /\ token' = "")
         => /\ cache'[k].data = cache[k].data
            /\ cache'[k].fetch # "inflight"]_vars

\* C29: while nobody is logged in, an attempt of a mutation that calls the
\* gateway does not carry a session token: a mutation that was waiting for its
\* retry when the user logged out is not committed with the token of the
\* session that ended.
C29_NoCommitAfterLogout ==
  [][\A n \in DOMAIN muts :
       (/\ n \in DOMAIN muts'
        /\ token = ""
        /\ muts'[n].calls > muts[n].calls)
         => muts'[n].tok = ""]_vars

\* C22: replay terminates. When the connectivity returns and stays, every
\* mutation that was paused ends in success or error; no mutation makes more
\* than Retry + 1 gateway calls; and a mutation whose commit was answered 400
\* is dropped: it makes no further gateway call.
C22_ReplayTerminates ==
  /\ \A n \in 1..MaxMuts :
       (<>[]online) => <>[](n \in DOMAIN muts => Settled(muts[n]))
  /\ [](\A n \in DOMAIN muts : muts[n].calls <= Retry + 1)
  /\ [][\A n \in DOMAIN muts :
          muts[n].last = <<400>> => muts'[n].calls = muts[n].calls]_vars

\* C25: under the session of the second user, who owns no rows, no key of the
\* cache holds a row: what a read returns was not fetched under the session of
\* the first user, neither before nor after a reload from the snapshot.
C25_SessionIsolation ==
  token = Other => \A k \in Keys : cache[k].data.def => cache[k].data.v = <<>>

\* C23: for each address and each rate-limited route, a request reaches the
\* handler exactly when fewer than the route's limit of requests to that route
\* have reached it in the window, whatever the address asked of other routes.
C23_PerRouteLimit ==
  [][\A ip \in Ips, route \in Routes :
       (/\ backend' # backend
        /\ backend'.answer # <<>>
        /\ backend'.answer[1] = ip /\ backend'.answer[2] = route)
         => (backend'.answer[3] # 429 <=> backend.passed[ip][route] < Limit(route))]_vars

\* C24: a reset token is used at most once - of the requests that carried the
\* same token at most one has reset the password - and a request that arrives
\* after the expiry of the token it carries does not get as far as the reset.
C24_SingleUse ==
  /\ [](\A r1, r2 \in 1..MaxReqs :
          (/\ backend.reqs[r1].pc = "done" /\ backend.reqs[r2].pc = "done"
           /\ backend.reqs[r1].token = backend.reqs[r2].token) => r1 = r2)
  /\ [][\A r \in 1..MaxReqs :
          (backend.reqs[r].pc = "idle" /\ backend'.reqs[r].pc = "hashing")
            => backend.user.reset_expires >= backend.now]_vars

\* C30: isConnected is true exactly when the socket of the ref is open, and
\* an event of a socket that is not the ref's socket changes neither
\* isConnected nor messages.
C30_CurrentSocketOnly ==
  /\ [](chat.isConnected <=> (chat.current # 0 /\ chat.sockets[chat.current] = "open"))
  /\ [][\A i \in DOMAIN chat.sockets :
          (/\ i # chat.current
           /\ Len(chat.sockets') = Len(chat.sockets)
           /\ \/ chat.sockets'[i] # chat.sockets[i]
              \/ chat.messages' = Append(chat.messages, i))
            => /\ chat.isConnected' = chat.isConnected
               /\ chat.messages' = chat.messages]_vars
====
